---- MODULE Spec2Model ----
(***************************************************************************)
(* Model of statsbot.py (HockeyStatsBot): the redis-backed duplicate and   *)
(* rate-limit check (check_db), the bounded comment queue filled by        *)
(* filter_comments and drained by filter_player, the chain of asyncio      *)
(* tasks get_player_ids -> get_player_stats -> reply, and the driver       *)
(* main() that the module-level loop runs again and again.                 *)
(*                                                                         *)
(* Scheduling: one asyncio event loop, one thread.  None of the pipeline   *)
(* coroutines awaits anything (requests.get blocks), so every task runs    *)
(* to completion in one step; main() suspends only at its two             *)
(* "yield from" points.  Tasks that are still pending when main() returns  *)
(* stay in the loop and run during a later run_until_complete.             *)
(***************************************************************************)
EXTENDS Integers, Sequences, FiniteSets, Bags, TLC

VARIABLES
    redis,          \* [ids: set of comment ids with an "id-<id>" key,
                    \*  hashes: submission id -> (field -> integer)]
    comment_queue,  \* self.comment_queue: sequence of comments
    tasks,          \* bag of pending asyncio tasks of the pipeline
    pc,             \* where main() is: "filter_comments", "filter_player", "sleep"
    delivered,      \* history: bag of comments on which comment.reply was invoked
    lastOp,         \* history: the operation that ran last, and how it ended
    stalled,        \* the task whose requests.get has not returned, if any
    args,           \* the input of the function a function-level specification applies
    result          \* what that function returned for args

\* What the driver and the pipeline actions leave alone when every request returns.
aux == <<stalled, args, result>>

vars == <<redis, comment_queue, tasks, pc, delivered, lastOp, stalled, args, result>>

(***************************************************************************)
(* Program constants.                                                      *)
(***************************************************************************)
PER_THREAD_USER == 5
PER_THREAD == 25

\* The author id that check_db lets through before any counter is read.
ALLOW_LISTED == "fhdgl"

(***************************************************************************)
(* Bounds of the model.                                                    *)
(***************************************************************************)
\* Stand-in for Queue(maxsize=1024): the capacity of comment_queue.
MaxQueue == 2
\* Longest listing one call of get_comments returns.
MaxBatch == 2
\* Most candidates (queued or as pending tasks) a scan may start with.
MaxInFlight == 2

(***************************************************************************)
(* Comments.  A praw Comment is modelled by the attributes the code reads. *)
(* author is NoAuthor for a comment whose account was deleted (praw gives  *)
(* comment.author = None); body is the sequence of its characters.         *)
(***************************************************************************)
NoAuthor == "None"

Comment(i, a, s, b) == [id |-> i, author |-> a, submission |-> s, body |-> b]

SummonBody == <<"[", "[", "a", " ", "b", "]", "]">>
NestedBody == <<"[", "[", "a", "[", "b", "]", "]">>

\* re.search("\[\[([^\[\]]*)\]\]", comment.body): some "[[" is followed by a
\* "]]" with no bracket in between.
RegexSummon(comment) ==
    LET b == comment.body
        n == Len(b)
    IN  \E i \in 1..n : \E j \in 1..n :
            /\ i + 1 < j
            /\ j + 1 <= n
            /\ b[i] = "[" /\ b[i + 1] = "["
            /\ b[j] = "]" /\ b[j + 1] = "]"
            /\ \A k \in (i + 2)..(j - 1) : b[k] \notin {"[", "]"}

(***************************************************************************)
(* The Decision Store: check_db.                                           *)
(***************************************************************************)
Digit == <<"0", "1", "2", "3", "4", "5", "6", "7", "8", "9">>

\* str(n) for n >= 0: the field name redis-py derives from an integer key.
RECURSIVE DecStr(_)
DecStr(n) == IF n < 10 THEN Digit[n + 1] ELSE DecStr(n \div 10) \o Digit[(n % 10) + 1]

EmptyHash == [f \in {} |-> 0]
EmptyRedis == [ids |-> {}, hashes |-> [s \in {} |-> EmptyHash]]

\* redis.hexists(name, field)
HExists(db, name, field) ==
    /\ name \in DOMAIN db.hashes
    /\ field \in DOMAIN db.hashes[name]

\* redis.hget(name, field) where the field exists
HGet(db, name, field) == db.hashes[name][field]

HashOf(db, name) == IF name \in DOMAIN db.hashes THEN db.hashes[name] ELSE EmptyHash

\* redis.hmset(name, mapping): sets the given fields, keeps the others
HMSet(db, name, mapping) ==
    [db EXCEPT !.hashes = (name :> (mapping @@ HashOf(db, name))) @@ db.hashes]

\* hincrby that loses its increment.
HIncrByLost(db, name, field) == db

\* redis.hincrby(name, field): adds 1, a missing field counting as 0
HIncrBy(db, name, field) ==
    LET old == IF HExists(db, name, field) THEN HGet(db, name, field) ELSE 0
    IN  HMSet(db, name, field :> (old + 1))

\* set that writes no key.
SetIdLost(db, id) == db

\* redis.set("id-<id>", 1)
SetId(db, id) == [db EXCEPT !.ids = @ \cup {id}]

\* The field check_db's second hincrby names: it is passed the local integer
\* total (line 353), which redis-py sends as its decimal string.
TotalIncrField(total) == DecStr(total)

\* Line 344 with > for >=.
ThreadFullStrict(total) == total > PER_THREAD

\* "Too many posts in one thread"
ThreadFull(total) == total >= PER_THREAD

\* "User is spamming"
UserFull(user_count) == user_count >= PER_THREAD_USER

\* check_db(comment, update) on store db.  ok is the returned bool, reason
\* names the return statement taken, db is the store afterwards.
CheckDb(comment, update, db) ==
    LET submission == comment.submission
        user == comment.author
        id == comment.id
    IN  IF id \in db.ids
        THEN [ok |-> FALSE, reason |-> "AlreadyHandled", db |-> db]
        ELSE
            LET db1 == IF update THEN SetId(db, id) ELSE db
            IN  IF user = ALLOW_LISTED
                THEN [ok |-> TRUE, reason |-> "AllowListed", db |-> db1]
                ELSE IF ~HExists(db1, submission, "total")
                THEN [ok |-> TRUE, reason |-> "NoRecord",
                      db |-> HMSet(db1, submission, (user :> 0) @@ ("total" :> 0))]
                ELSE
                    LET total == HGet(db1, submission, "total")
                        user_count == IF HExists(db1, submission, user)
                                      THEN HGet(db1, submission, user)
                                      ELSE 0
                    IN  IF ThreadFull(total)
                        THEN [ok |-> FALSE, reason |-> "ThreadSaturated", db |-> db1]
                        ELSE IF UserFull(user_count)
                        THEN [ok |-> FALSE, reason |-> "AuthorSaturated", db |-> db1]
                        ELSE [ok |-> TRUE, reason |-> "Pass",
                              db |-> IF update
                                     THEN HIncrBy(HIncrBy(db1, submission, user),
                                                  submission, TotalIncrField(total))
                                     ELSE db1]

(***************************************************************************)
(* filter_comments: the scan of one listing.                               *)
(***************************************************************************)
\* The for loop of filter_comments from position i of the listing on, with
\* store db and queue q.  exc names the exception that left the loop:
\* AttributeError from comment.author.id of a deleted account, QueueFull from
\* put_nowait on a full queue.  full counts the candidates that met a full
\* queue.
RECURSIVE ScanFrom(_, _, _, _)
ScanFrom(comments, i, db, q) ==
    IF i > Len(comments)
    THEN [db |-> db, queue |-> q, exc |-> "none", full |-> 0]
    ELSE
        LET comment == comments[i]
        IN  IF ~RegexSummon(comment)
            THEN ScanFrom(comments, i + 1, db, q)
            ELSE IF comment.author = NoAuthor
            THEN [db |-> db, queue |-> q, exc |-> "AttributeError", full |-> 0]
            ELSE
                LET r == CheckDb(comment, FALSE, db)
                IN  IF ~r.ok
                    THEN ScanFrom(comments, i + 1, r.db, q)
                    ELSE IF Len(q) >= MaxQueue
                    THEN [db |-> r.db, queue |-> q, exc |-> "QueueFull", full |-> 1]
                    ELSE ScanFrom(comments, i + 1, r.db, Append(q, comment))

(***************************************************************************)
(* The pipeline tasks and the driver.                                      *)
(***************************************************************************)
NoComment == Comment(0, NoAuthor, "", <<>>)

\* What the last operation was and how it ended: the comment it handled, the
\* bool and the return statement of its check_db call (reason "none" when it
\* made none), the exception that ended it, the number of candidates that met
\* a full queue, and the stages its pipeline run has been through.
Op(name, comment, ok, reason, exc, full, trail) ==
    [op |-> name, comment |-> comment, ok |-> ok, reason |-> reason,
     exc |-> exc, full |-> full, trail |-> trail]

\* A pending task: the coroutine it will run, the comment it carries, the
\* payload of the record provider once fetched, and the stages its run has
\* been through.
Task(coro, comment, player_data, hist) ==
    [coro |-> coro, comment |-> comment, player_data |-> player_data, hist |-> hist]

\* No task is inside a request that has not returned.
NoTask == Task("none", NoComment, "none", <<>>)

\* No function-level input has been drawn, nothing has been returned.
NoArgs == [fn |-> "none"]
NoResult == [fn |-> "none"]

\* The tasks filter_player schedules for the queue's content.
RECURSIVE Scheduled(_)
Scheduled(q) ==
    IF q = <<>>
    THEN EmptyBag
    ELSE SetToBag({Task("get_player_ids", Head(q), "none", <<"parsed">>)})
             (+) Scheduled(Tail(q))

\* Where the driver would be if main let the exception of the scan through:
\* run_until_complete raises and the module loop ends.
AfterScanUncaught(exc) == IF exc = "none" THEN "filter_player" ELSE "stopped"

\* Where the driver is after the scan: at the drain, or, the exception caught by
\* main's except clause and main returned, at the scan of the next call of main.
AfterScan(exc) == IF exc = "none" THEN "filter_player" ELSE "filter_comments"

\* main(), first step: filter_comments() on the listing get_comments returned.
\* An exception is caught by main's except clause, which ends the cycle.
FilterComments(comments) ==
    /\ pc = "filter_comments"
    /\ Len(comment_queue) + BagCardinality(tasks) <= MaxInFlight
    /\ LET r == ScanFrom(comments, 1, redis, comment_queue)
       IN  /\ redis' = r.db
           /\ comment_queue' = r.queue
           /\ pc' = AfterScan(r.exc)
           /\ lastOp' = Op("filter_comments", NoComment, FALSE, "none", r.exc, r.full, <<>>)
    /\ UNCHANGED <<tasks, delivered>>
    /\ UNCHANGED aux

\* filter_player(): takes every queued comment and schedules get_player_ids
\* for it, until the queue is empty.
FilterPlayer ==
    /\ pc = "filter_player"
    /\ tasks' = tasks (+) Scheduled(comment_queue)
    /\ comment_queue' = <<>>
    /\ pc' = "sleep"
    /\ lastOp' = Op("filter_player", NoComment, FALSE, "none", "none", 0, <<>>)
    /\ UNCHANGED <<redis, delivered>>
    /\ UNCHANGED aux

\* asyncio.sleep(10) is over: main() returns and the module loop calls it again.
Sleep ==
    /\ pc = "sleep"
    /\ pc' = "filter_comments"
    /\ lastOp' = Op("sleep", NoComment, FALSE, "none", "none", 0, <<>>)
    /\ UNCHANGED <<redis, comment_queue, tasks, delivered>>
    /\ UNCHANGED aux

\* What get_player_ids schedules with every suggestion handed on, matching or not.
IdsScheduledAlways(t, found) ==
    SetToBag({Task("get_player_stats", t.comment, "none", Append(t.hist, found))})

\* What get_player_ids schedules: get_player_stats for the first suggestion
\* that holds the key, nothing when none does or the request raised.
IdsScheduled(t, found) ==
    IF found = "match"
    THEN SetToBag({Task("get_player_stats", t.comment, "none", Append(t.hist, "match"))})
    ELSE EmptyBag

\* get_player_ids: found is what the suggestion provider's answer amounts to:
\* "match" (a suggestion holds the key), "nomatch", or "error" (requests.get
\* or response.json() raised).
GetPlayerIds(t, found) ==
    /\ t \in BagToSet(tasks)
    /\ t.coro = "get_player_ids"
    /\ tasks' = (tasks (-) SetToBag({t})) (+) IdsScheduled(t, found)
    /\ lastOp' = Op("get_player_ids", t.comment, FALSE, "none",
                    IF found = "error" THEN "RequestError" ELSE "none", 0,
                    Append(t.hist, found))
    /\ UNCHANGED <<redis, comment_queue, pc, delivered>>
    /\ UNCHANGED aux

\* What get_player_stats schedules: reply with the payload, nothing when the
\* request raised.
StatsScheduled(t, payload) ==
    IF payload = "error"
    THEN EmptyBag
    ELSE SetToBag({Task("reply", t.comment, payload, Append(t.hist, "fetched"))})

\* get_player_stats: payload is the record provider's answer: "ok", "malformed"
\* (json without the people/stats structure), or "error" (requests.get or
\* response.json() raised).
GetPlayerStats(t, payload) ==
    /\ t \in BagToSet(tasks)
    /\ t.coro = "get_player_stats"
    /\ tasks' = (tasks (-) SetToBag({t})) (+) StatsScheduled(t, payload)
    /\ lastOp' = Op("get_player_stats", t.comment, FALSE, "none",
                    IF payload = "error" THEN "RequestError" ELSE "none", 0,
                    Append(t.hist, IF payload = "error" THEN "error" ELSE "fetched"))
    /\ UNCHANGED <<redis, comment_queue, pc, delivered>>
    /\ UNCHANGED aux

\* The deliveries after reply's last lines had they no test of check_db's result.
DeliverUnchecked(ok, comment, bag) == bag (+) SetToBag({comment})

\* The deliveries after reply's last lines: comment.reply is invoked when
\* check_db returned True (reply_msg is never empty: it ends with the footer).
Deliver(ok, comment, bag) ==
    IF ok THEN bag (+) SetToBag({comment}) ELSE bag

\* reply with a torn commit: the marker test answered from before any marker
\* was written, as if other commits ran between the test and the update.
ReplyTorn(t) ==
    /\ t \in BagToSet(tasks)
    /\ t.coro = "reply"
    /\ tasks' = tasks (-) SetToBag({t})
    /\ IF t.player_data = "malformed"
       THEN /\ lastOp' = Op("reply", t.comment, FALSE, "none", "KeyError", 0,
                            Append(t.hist, "malformed"))
            /\ UNCHANGED <<redis, delivered>>
       ELSE LET r == CheckDb(t.comment, TRUE, [redis EXCEPT !.ids = {}])
                d == Deliver(r.ok, t.comment, delivered)
            IN  /\ redis' = [r.db EXCEPT !.ids = @ \cup redis.ids]
                /\ delivered' = d
                /\ lastOp' = Op("reply", t.comment, r.ok, r.reason, "none", 0,
                                t.hist \o <<"rendered">>
                                       \o (IF r.ok THEN <<"accepted">> ELSE <<"rejected">>)
                                       \o (IF d # delivered THEN <<"delivered">> ELSE <<>>))
    /\ UNCHANGED <<comment_queue, pc>>
    /\ UNCHANGED aux

\* reply: a malformed payload raises before the message is built; otherwise
\* the message is rendered, then check_db(update=True) runs, then the delivery.
Reply(t) ==
    /\ t \in BagToSet(tasks)
    /\ t.coro = "reply"
    /\ tasks' = tasks (-) SetToBag({t})
    /\ IF t.player_data = "malformed"
       THEN /\ lastOp' = Op("reply", t.comment, FALSE, "none", "KeyError", 0,
                            Append(t.hist, "malformed"))
            /\ UNCHANGED <<redis, delivered>>
       ELSE LET r == CheckDb(t.comment, TRUE, redis)
                d == Deliver(r.ok, t.comment, delivered)
            IN  /\ redis' = r.db
                /\ delivered' = d
                /\ lastOp' = Op("reply", t.comment, r.ok, r.reason, "none", 0,
                                t.hist \o <<"rendered">>
                                       \o (IF r.ok THEN <<"accepted">> ELSE <<"rejected">>)
                                       \o (IF d # delivered THEN <<"delivered">> ELSE <<>>))
    /\ UNCHANGED <<comment_queue, pc>>
    /\ UNCHANGED aux

Init ==
    /\ redis = EmptyRedis
    /\ comment_queue = <<>>
    /\ tasks = EmptyBag
    /\ pc = "filter_comments"
    /\ delivered = EmptyBag
    /\ lastOp = Op("init", NoComment, FALSE, "none", "none", 0, <<>>)
    /\ stalled = NoTask
    /\ args = NoArgs
    /\ result = NoResult

(***************************************************************************)
(* Spec: a handful of comments, every interleaving.                        *)
(***************************************************************************)
Comments ==
    { Comment(1, NoAuthor, "s1", SummonBody),
      Comment(2, "u1", "s1", SummonBody),
      Comment(3, ALLOW_LISTED, "s1", SummonBody),
      Comment(4, "u1", "s1", NestedBody) }

\* The comments of S, newest (highest id) first: the order of a listing.
RECURSIVE NewestFirst(_)
NewestFirst(S) ==
    IF S = {}
    THEN <<>>
    ELSE LET c == CHOOSE x \in S : \A y \in S : y.id <= x.id
         IN  <<c>> \o NewestFirst(S \ {c})

\* The listings get_comments can return: up to maxLen comments, newest first.
Listings(universe, maxLen) ==
    { NewestFirst(S) : S \in { T \in SUBSET universe : Cardinality(T) <= maxLen } }

Next ==
    \/ \E comments \in Listings(Comments, MaxBatch) : FilterComments(comments)
    \/ FilterPlayer
    \/ Sleep
    \/ \E t \in BagToSet(tasks) : \E found \in {"match", "nomatch", "error"} :
           GetPlayerIds(t, found)
    \/ \E t \in BagToSet(tasks) : \E payload \in {"ok", "malformed", "error"} :
           GetPlayerStats(t, payload)
    \/ \E t \in BagToSet(tasks) : Reply(t)

Spec == Init /\ [][Next]_vars

(***************************************************************************)
(* One thread.  Six comments per author, all under one submission, shown   *)
(* by the source oldest first: a listing is a window of consecutive        *)
(* comments that starts no later than the oldest comment the bot has not   *)
(* settled yet (answered, or refused by check_db).                         *)
(***************************************************************************)
\* Number of comments of the long thread (SpecCaps).
MaxCapsComments == 31
\* Number of comments of the short thread (SpecAuthor).
MaxAuthorComments == 7

CapsAuthor(i) == "u" \o DecStr(((i - 1) \div (PER_THREAD_USER + 1)) + 1)

CapsComment(i) == Comment(i, CapsAuthor(i), "s1", SummonBody)

Settled(comment) == ~CheckDb(comment, FALSE, redis).ok

\* The windows of at most width of the first n comments of the thread.
ThreadListings(n, width) ==
    { NewestFirst({ CapsComment(i) : i \in w[1]..w[2] }) :
        w \in { v \in (1..n) \X (1..n) :
                  /\ v[1] <= v[2]
                  /\ v[2] - v[1] < width
                  /\ \A i \in 1..(v[1] - 1) : Settled(CapsComment(i)) } }

\* SpecCaps: the long thread, one comment per listing, and every cycle's
\* tasks have run when the next listing is fetched.
NextCaps ==
    \/ /\ comment_queue = <<>>
       /\ tasks = EmptyBag
       /\ \E comments \in ThreadListings(MaxCapsComments, 1) : FilterComments(comments)
    \/ FilterPlayer
    \/ Sleep
    \/ \E t \in BagToSet(tasks) : \E found \in {"match", "nomatch", "error"} :
           GetPlayerIds(t, found)
    \/ \E t \in BagToSet(tasks) : \E payload \in {"ok", "malformed", "error"} :
           GetPlayerStats(t, payload)
    \/ \E t \in BagToSet(tasks) : Reply(t)

SpecCaps == Init /\ [][NextCaps]_vars

\* SpecAuthor: the short thread, listings of up to MaxBatch comments whose
\* pipelines interleave; every cycle's tasks have run when the next listing
\* is fetched.
NextAuthor ==
    \/ /\ tasks = EmptyBag
       /\ \E comments \in ThreadListings(MaxAuthorComments, MaxBatch) :
              FilterComments(comments)
    \/ FilterPlayer
    \/ Sleep
    \/ \E t \in BagToSet(tasks) : \E found \in {"match", "nomatch", "error"} :
           GetPlayerIds(t, found)
    \/ \E t \in BagToSet(tasks) : \E payload \in {"ok", "malformed", "error"} :
           GetPlayerStats(t, payload)
    \/ \E t \in BagToSet(tasks) : Reply(t)

SpecAuthor == Init /\ [][NextAuthor]_vars

(***************************************************************************)
(* Derived quantities used by the properties.                              *)
(***************************************************************************)
\* Number of replies delivered to the comments of set S.
RECURSIVE Deliveries(_)
Deliveries(S) ==
    IF S = {}
    THEN 0
    ELSE LET c == CHOOSE x \in S : TRUE
         IN  CopiesIn(c, delivered) + Deliveries(S \ {c})

\* Replies delivered under a submission to authors other than the allow-listed one.
AcceptedTotal(submission) ==
    Deliveries({ c \in BagToSet(delivered) :
                   c.submission = submission /\ c.author # ALLOW_LISTED })

\* Replies delivered under a submission to one author.
AcceptedFor(submission, author) ==
    Deliveries({ c \in BagToSet(delivered) :
                   c.submission = submission /\ c.author = author })

(***************************************************************************)
(* SpecDecide: check_db as a function of the store.  The store the bot     *)
(* connects to is persistent, so its content at start is drawn from a      *)
(* bounded set: any markers, no record or a record with total and u1's     *)
(* count at, just below and away from their caps.  Every step is one call  *)
(* of check_db.                                                            *)
(***************************************************************************)
DecideComments ==
    { Comment(1, "u1", "s1", SummonBody),
      Comment(2, "u2", "s1", SummonBody),
      Comment(3, ALLOW_LISTED, "s1", SummonBody) }

DecideStores ==
    { [ids |-> ids, hashes |-> h] :
        ids \in SUBSET {1, 3},
        h \in {[s \in {} |-> EmptyHash]}
              \cup { ("s1" :> (("total" :> t) @@ u)) :
                       t \in {0, PER_THREAD - 1, PER_THREAD},
                       u \in {EmptyHash, ("u1" :> (PER_THREAD_USER - 1)),
                              ("u1" :> PER_THREAD_USER)} } }

InitDecide ==
    /\ redis \in DecideStores
    /\ comment_queue = <<>>
    /\ tasks = EmptyBag
    /\ pc = "filter_comments"
    /\ delivered = EmptyBag
    /\ lastOp = Op("init", NoComment, FALSE, "none", "none", 0, <<>>)
    /\ stalled = NoTask
    /\ args = NoArgs
    /\ result = NoResult

\* One call check_db(comment, update).
ApplyCheckDb(comment, update) ==
    /\ LET r == CheckDb(comment, update, redis)
       IN  /\ redis' = r.db
           /\ lastOp' = Op("check_db", comment, r.ok, r.reason, "none", 0,
                           <<IF update THEN "commit" ELSE "admit">>)
    /\ UNCHANGED <<comment_queue, tasks, pc, delivered>>
    /\ UNCHANGED aux

NextDecide ==
    \E comment \in DecideComments : \E update \in BOOLEAN :
        ApplyCheckDb(comment, update)

SpecDecide == InitDecide /\ [][NextDecide]_vars

(***************************************************************************)
(* SpecStall: Spec with requests that may never return.  requests.get is   *)
(* called without a timeout from inside the coroutine, on the thread of    *)
(* the event loop: while it has not returned, that thread runs nothing.    *)
(***************************************************************************)
\* The event loop's thread is not inside a request.
LoopFree == stalled = NoTask

\* get_player_ids or get_player_stats of task t calls requests.get, and the
\* provider never answers.
Stall(t) ==
    /\ t \in BagToSet(tasks)
    /\ t.coro \in {"get_player_ids", "get_player_stats"}
    /\ stalled' = t
    /\ tasks' = tasks (-) SetToBag({t})
    /\ lastOp' = Op(t.coro, t.comment, FALSE, "none", "pending", 0, t.hist)
    /\ UNCHANGED <<redis, comment_queue, pc, delivered, args, result>>

\* The steps the event loop can run: none while its thread is inside a request.
ScanStep ==
    LoopFree /\ \E comments \in Listings(Comments, MaxBatch) : FilterComments(comments)

DrainStep == LoopFree /\ FilterPlayer

SleepStep == LoopFree /\ Sleep

IdsStep ==
    LoopFree /\ \E t \in BagToSet(tasks) : \E found \in {"match", "nomatch", "error"} :
                    GetPlayerIds(t, found)

StatsStep ==
    LoopFree /\ \E t \in BagToSet(tasks) : \E payload \in {"ok", "malformed", "error"} :
                    GetPlayerStats(t, payload)

ReplyStep == LoopFree /\ \E t \in BagToSet(tasks) : Reply(t)

StallStep == LoopFree /\ \E t \in BagToSet(tasks) : Stall(t)

\* The steps of the driver, and those of the pending tasks.
DriverStep == ScanStep \/ DrainStep \/ SleepStep

PipelineStep == IdsStep \/ StatsStep \/ ReplyStep \/ StallStep

NextStall ==
    \/ ScanStep
    \/ DrainStep
    \/ SleepStep
    \/ IdsStep
    \/ StatsStep
    \/ ReplyStep
    \/ StallStep

SpecStall == Init /\ [][NextStall]_vars

(***************************************************************************)
(* reply's rendering: the provider's payload as nested dicts and lists, a  *)
(* message as its header and the rows format_reply appended.               *)
(***************************************************************************)
NHL_LEAGUE_ID == 133

\* The literal of "if counter == 5: break".
SeasonRowLimit == 5

\* Longest season series drawn.
MaxSeasons == 6

\* dict.get(key, default)
Get(d, key, default) == IF key \in DOMAIN d THEN d[key] ELSE default

\* reply_skater_record / reply_goalie_record filled in: the columns the
\* template names, of which the model keeps the first statistic and the games.
Format(reply_format, abbreviation, season, stat) ==
    IF reply_format = "goalie"
    THEN [abbreviation |-> abbreviation, season |-> season,
          savePercentage |-> Get(stat, "savePercentage", " "),
          games |-> Get(stat, "games", " ")]
    ELSE [abbreviation |-> abbreviation, season |-> season,
          goals |-> Get(stat, "goals", " "),
          games |-> Get(stat, "games", " ")]

\* The body of the try block of the season loop raises KeyError when the entry
\* has no 'stat' or no 'team'.
SeasonRowRaises(season) ==
    \/ "stat" \notin DOMAIN season
    \/ "team" \notin DOMAIN season

SeasonRow(reply_format, season) ==
    Format(reply_format, Get(season.team, "abbreviation", "NHL"),
           Get(season, "season", " "), season.stat)

\* The season loop stopping at the first row that cannot be formatted.
RECURSIVE SeasonLoopAborting(_, _, _, _, _)
SeasonLoopAborting(season_stats, i, counter, reply_list, reply_format) ==
    IF i = 0 \/ counter = SeasonRowLimit
    THEN reply_list
    ELSE LET season == season_stats[i]
         IN  IF "id" \notin DOMAIN season.league \/ season.league.id # NHL_LEAGUE_ID
             THEN SeasonLoopAborting(season_stats, i - 1, counter, reply_list, reply_format)
             ELSE IF SeasonRowRaises(season)
                  THEN reply_list
                  ELSE SeasonLoopAborting(season_stats, i - 1, counter + 1,
                                          Append(reply_list, SeasonRow(reply_format, season)),
                                          reply_format)

\* for season in season_stats[::-1]: from index i down to 1, with the counter
\* and the reply_list built so far. The counter is incremented for every entry
\* of the target league, whether its row was appended or its exception logged.
RECURSIVE SeasonLoop(_, _, _, _, _)
SeasonLoop(season_stats, i, counter, reply_list, reply_format) ==
    IF i = 0 \/ counter = SeasonRowLimit
    THEN reply_list
    ELSE LET season == season_stats[i]
         IN  IF "id" \notin DOMAIN season.league \/ season.league.id # NHL_LEAGUE_ID
             THEN SeasonLoop(season_stats, i - 1, counter, reply_list, reply_format)
             ELSE SeasonLoop(season_stats, i - 1, counter + 1,
                             IF SeasonRowRaises(season)
                             THEN reply_list
                             ELSE Append(reply_list, SeasonRow(reply_format, season)),
                             reply_format)

\* The list left in the order the loop built it.
NotReversed(list) == list

\* reply_list[::-1]
Reversed(list) == [k \in 1..Len(list) |-> list[Len(list) + 1 - k]]

\* The try block of the career row raises IndexError on an empty splits list
\* and KeyError on a split without 'stat'.
CareerRowRaises(career_stats) ==
    \/ Len(career_stats.splits) = 0
    \/ "stat" \notin DOMAIN career_stats.splits[1]

\* The career row is dropped when its try block raised.
CareerRow(career_stats, reply_format) ==
    IF CareerRowRaises(career_stats)
    THEN <<>>
    ELSE <<Format(reply_format, "NHL", "Career", career_stats.splits[1].stat)>>

SeasonRows(season_stats, reply_format) ==
    Reversed(SeasonLoop(season_stats, Len(season_stats), 0, <<>>, reply_format))

\* format_reply(season_stats, career_stats, header, reply_format)
FormatReply(season_stats, career_stats, reply_format) ==
    [header |-> reply_format,
     rows   |-> SeasonRows(season_stats, reply_format)
                \o CareerRow(career_stats, reply_format)]

\* [s for s in person["stats"] if s["type"]["displayName"] == name]
StatsNamed(person, name) ==
    SelectSeq(person.stats, LAMBDA s : s.type.displayName = name)

\* The statements of reply outside format_reply raise on a payload without a
\* person, without one of the two stat groups, or without a position code.
PayloadRaises(player_data) ==
    \/ Len(player_data.people) = 0
    \/ LET person == player_data.people[1]
       IN  \/ Len(StatsNamed(person, "yearByYear")) = 0
           \/ Len(StatsNamed(person, "careerRegularSeason")) = 0
           \/ "primaryPosition" \notin DOMAIN person
           \/ "code" \notin DOMAIN person.primaryPosition

\* reply up to the commit: the message built from the payload.
ReplyMsg(player_data) ==
    LET person       == player_data.people[1]
        season_stats == StatsNamed(person, "yearByYear")[1].splits
        career_stats == StatsNamed(person, "careerRegularSeason")[1]
    IN  IF person.primaryPosition.code = "G"
        THEN FormatReply(season_stats, career_stats, "goalie")
        ELSE FormatReply(season_stats, career_stats, "skater")

NoMsg == [header |-> "none", rows |-> <<>>]

\* reply on the payload held in args: render, commit, deliver.
ReplyRendered ==
    /\ args.fn = "reply"
    /\ result = NoResult
    /\ IF PayloadRaises(args.player_data)
       THEN /\ result' = [fn |-> "reply", raised |-> TRUE, reply_msg |-> NoMsg]
            /\ lastOp' = Op("reply", args.comment, FALSE, "none", "KeyError", 0,
                            <<"malformed">>)
            /\ UNCHANGED <<redis, delivered>>
       ELSE LET r == CheckDb(args.comment, TRUE, redis)
                d == Deliver(r.ok, args.comment, delivered)
            IN  /\ result' = [fn |-> "reply", raised |-> FALSE,
                              reply_msg |-> ReplyMsg(args.player_data)]
                /\ redis' = r.db
                /\ delivered' = d
                /\ lastOp' = Op("reply", args.comment, r.ok, r.reason, "none", 0,
                                <<"rendered">>
                                \o (IF r.ok THEN <<"accepted">> ELSE <<"rejected">>)
                                \o (IF d # delivered THEN <<"delivered">> ELSE <<>>))
    /\ UNCHANGED <<comment_queue, tasks, pc, stalled, args>>

(***************************************************************************)
(* SpecRender: reply applied to every payload of a bounded family.         *)
(***************************************************************************)
\* The season label of the n-th entry of a series (oldest first).
SeasonLabel(n) == DecStr(n) \o DecStr(n + 1)

\* The shapes of a season entry: of the target league and complete, of the
\* target league without a stat block, of another league, of a league that
\* carries no id.
EntryShapes == {"nhl", "nostat", "other", "noid"}

Entry(shape, n) ==
    LET team == [abbreviation |-> "TOR"]
        stat == [games |-> DecStr(n), goals |-> "30"]
    IN  CASE shape = "nhl" ->
               [league |-> [id |-> NHL_LEAGUE_ID], team |-> team,
                season |-> SeasonLabel(n), stat |-> stat]
          [] shape = "nostat" ->
               [league |-> [id |-> NHL_LEAGUE_ID], team |-> team,
                season |-> SeasonLabel(n)]
          [] shape = "other" ->
               [league |-> [id |-> NHL_LEAGUE_ID + 1], team |-> team,
                season |-> SeasonLabel(n), stat |-> stat]
          [] shape = "noid" ->
               [league |-> [name |-> "WJC"], team |-> team,
                season |-> SeasonLabel(n), stat |-> stat]

SeasonSeries(maxLen) ==
    UNION { { [i \in 1..n |-> Entry(f[i], i)] : f \in [1..n -> EntryShapes] }
            : n \in 0..maxLen }

CareerAggregates ==
    { [type |-> [displayName |-> "careerRegularSeason"],
       splits |-> <<[stat |-> [games |-> "500", goals |-> "100"]]>>],
      [type |-> [displayName |-> "careerRegularSeason"], splits |-> <<>>] }

PlayerData(code, season_stats, career_stats) ==
    [people |-> << [primaryPosition |-> [code |-> code],
                    stats |-> << [type |-> [displayName |-> "yearByYear"],
                                  splits |-> season_stats],
                                 career_stats >>] >>]

Payloads(maxLen) ==
    { PlayerData(code, season_stats, career_stats) :
        code \in {"G", "C"},
        season_stats \in SeasonSeries(maxLen),
        career_stats \in CareerAggregates }
    \cup { [people |-> <<>>] }

RenderComment == Comment(2, "u1", "s1", SummonBody)

InitRender ==
    /\ redis = CheckDb(RenderComment, FALSE, EmptyRedis).db
    /\ comment_queue = <<>>
    /\ tasks = EmptyBag
    /\ pc = "filter_comments"
    /\ delivered = EmptyBag
    /\ lastOp = Op("init", NoComment, FALSE, "none", "none", 0, <<>>)
    /\ stalled = NoTask
    /\ args \in { [fn |-> "reply", comment |-> RenderComment, player_data |-> p] :
                  p \in Payloads(MaxSeasons) }
    /\ result = NoResult

NextRender == ReplyRendered

SpecRender == InitRender /\ [][NextRender]_vars

(***************************************************************************)
(* Names: parse_names (filter_player) and the match of get_player_ids.     *)
(* A str is the sequence of its characters.                                *)
(***************************************************************************)
\* Longest text between the brackets drawn.
MaxName == 4

\* str.lower() on one character of the alphabet drawn.
LowerChar(ch) ==
    CASE ch = "A" -> "a"
      [] ch = "B" -> "b"
      [] OTHER -> ch

\* str.lower()
Lower(str) == [k \in 1..Len(str) |-> LowerChar(str[k])]

\* str.replace(ch, ""), ch one character.
Strip(str, ch) == SelectSeq(str, LAMBDA c : c # ch)

\* str.replace(pair, ""), pair two characters: the occurrences are cut from
\* left to right, without overlap.
RECURSIVE StripPair(_, _)
StripPair(str, pair) ==
    IF Len(str) < 2
    THEN str
    ELSE IF SubSeq(str, 1, 2) = pair
         THEN StripPair(SubSeq(str, 3, Len(str)), pair)
         ELSE <<Head(str)>> \o StripPair(Tail(str), pair)

\* str.split(sep), sep one character: the pieces between the separators, empty
\* pieces included.
RECURSIVE Split(_, _)
Split(str, sep) ==
    IF \A k \in 1..Len(str) : str[k] # sep
    THEN <<str>>
    ELSE LET k == CHOOSE k \in 1..Len(str) :
                      str[k] = sep /\ \A l \in 1..(k - 1) : str[l] # sep
         IN  <<SubSeq(str, 1, k - 1)>> \o Split(SubSeq(str, k + 1, Len(str)), sep)

\* "".join(words)
RECURSIVE Join(_)
Join(words) == IF words = <<>> THEN <<>> ELSE Head(words) \o Join(Tail(words))

\* group(0) of the search of _regex_summon: the leftmost "[[...]]" of the body.
Group0(body) ==
    LET n == Len(body)
        IsMatch(i, j) ==
            /\ i + 1 < j /\ j + 1 <= n
            /\ body[i] = "[" /\ body[i + 1] = "["
            /\ body[j] = "]" /\ body[j + 1] = "]"
            /\ \A k \in (i + 2)..(j - 1) : body[k] \notin {"[", "]"}
        i == CHOOSE i \in 1..n :
                 /\ \E j \in 1..n : IsMatch(i, j)
                 /\ \A h \in 1..(i - 1) : \A j \in 1..n : ~IsMatch(h, j)
        j == CHOOSE j \in 1..n : IsMatch(i, j)
    IN  SubSeq(body, i, j + 1)

\* The last name with its hyphens left in.
LastNameHyphenated(full_name) ==
    Strip(Lower(Join(Tail(Split(full_name, " ")))), ".")

\* ("".join(full_name.split(' ')[1:])).lower().replace(".", "").replace("-", "")
LastName(full_name) ==
    Strip(Strip(Lower(Join(Tail(Split(full_name, " ")))), "."), "-")

\* parse_names(parsed_comment)
ParseNames(group0) ==
    LET full_name == StripPair(StripPair(group0, <<"[", "[">>), <<"]", "]">>)
    IN  [first_name |-> Lower(Head(Split(full_name, " "))),
         last_name  |-> LastName(full_name)]

\* "{}-{}".format(first_name, last_name.replace("'", ""))
MatchKey(first_name, last_name) == first_name \o <<"-">> \o Strip(last_name, "'")

\* needle in hay, tried at offset k and then further right.
RECURSIVE InFrom(_, _, _)
InFrom(needle, hay, k) ==
    IF k + Len(needle) - 1 > Len(hay)
    THEN FALSE
    ELSE IF SubSeq(hay, k, k + Len(needle) - 1) = needle
         THEN TRUE
         ELSE InFrom(needle, hay, k + 1)

NoPlayer == <<"n", "o", "n", "e">>

\* for player in suggestions: if key in player: ... player.split("|")[0];
\* NoPlayer when the loop ends without a match (no task is scheduled).
RECURSIVE PlayerIdOf(_, _)
PlayerIdOf(key, suggestions) ==
    IF suggestions = <<>>
    THEN NoPlayer
    ELSE LET player == Head(suggestions)
         IN  IF InFrom(key, player, 1)
             THEN Head(Split(player, "|"))
             ELSE PlayerIdOf(key, Tail(suggestions))

(***************************************************************************)
(* SpecNames: parse_names applied to every bracketed text of a bounded     *)
(* family, then the match against every suggestion list of another.        *)
(***************************************************************************)
NameChars == {"A", "b", " ", ".", "-", "'"}

\* The texts between the brackets: every string over NameChars up to maxLen.
FullNames(maxLen) == UNION { [1..n -> NameChars] : n \in 0..maxLen }

\* Suggestions of the provider: an id, a bar, the player's slug.
Suggestions ==
    { <<"7", "|", "a", "-", "b">>,
      <<"8", "|", "a", "-", "b", "b">>,
      <<"9", "|", "a", "b", "-", "b">>,
      <<"5", "|", "-">> }

SuggestionLists ==
    UNION { { <<>> },
            { <<x>> : x \in Suggestions },
            { <<x, y>> : x \in Suggestions, y \in Suggestions } }

\* filter_player's body for one comment: the names parsed from its body.
ApplyParseNames ==
    /\ args.fn = "parse_names"
    /\ result = NoResult
    /\ LET names == ParseNames(Group0(args.body))
       IN  result' = [fn |-> "parse_names",
                      first_name |-> names.first_name,
                      last_name |-> names.last_name]
    /\ UNCHANGED <<redis, comment_queue, tasks, pc, delivered, lastOp, stalled, args>>

\* get_player_ids for the parsed names and a response of the provider.
ApplyPlayerIds(suggestions) ==
    /\ result.fn = "parse_names"
    /\ result' = [fn |-> "get_player_ids",
                  first_name |-> result.first_name,
                  last_name |-> result.last_name,
                  suggestions |-> suggestions,
                  player_id |-> PlayerIdOf(MatchKey(result.first_name, result.last_name),
                                           suggestions)]
    /\ UNCHANGED <<redis, comment_queue, tasks, pc, delivered, lastOp, stalled, args>>

InitNames ==
    /\ redis = EmptyRedis
    /\ comment_queue = <<>>
    /\ tasks = EmptyBag
    /\ pc = "filter_player"
    /\ delivered = EmptyBag
    /\ lastOp = Op("init", NoComment, FALSE, "none", "none", 0, <<>>)
    /\ stalled = NoTask
    /\ args \in { [fn |-> "parse_names",
                   body |-> <<"[", "[">> \o full_name \o <<"]", "]">>] :
                  full_name \in FullNames(MaxName) }
    /\ result = NoResult

NextNames ==
    \/ ApplyParseNames
    \/ \E suggestions \in SuggestionLists : ApplyPlayerIds(suggestions)

SpecNames == InitNames /\ [][NextNames]_vars

(***************************************************************************)
(* Properties.                                                             *)
(***************************************************************************)
FullTrail == <<"parsed", "match", "fetched", "rendered", "accepted", "delivered">>

\* The record of a submission: its total and an author's count, 0 when absent.
TotalOf(db, submission) ==
    IF HExists(db, submission, "total") THEN HGet(db, submission, "total") ELSE 0

CountOf(db, submission, user) ==
    IF HExists(db, submission, user) THEN HGet(db, submission, user) ELSE 0

\* C1: comment.reply is invoked at most once for every comment id, whatever
\* the interleaving of cycles and pipeline runs, several runs admitted for
\* the same comment included.
C1_AtMostOneDelivery ==
    \A c \in BagToSet(delivered) :
        Deliveries({ d \in BagToSet(delivered) : d.id = c.id }) <= 1

\* C1 witness: a comment has been answered and a second run for it has just
\* been refused by the commit check.
C1_Witness ==
    /\ lastOp.op = "reply"
    /\ lastOp.reason = "AlreadyHandled"
    /\ CopiesIn(lastOp.comment, delivered) = 1

\* C2 (as claimed): the replies delivered under a submission to authors other
\* than the allow-listed one never exceed PER_THREAD.
C2_ThreadCap ==
    \A c \in BagToSet(delivered) : AcceptedTotal(c.submission) <= PER_THREAD

\* C3: for every (submission, author) with the author not allow-listed, the
\* replies delivered never exceed PER_THREAD_USER.
C3_AuthorCap ==
    \A c \in BagToSet(delivered) :
        c.author # ALLOW_LISTED =>
            AcceptedFor(c.submission, c.author) <= PER_THREAD_USER

\* C3 witness: an author has PER_THREAD_USER replies under the submission and
\* the commit check has just refused one more comment of that author.
C3_Witness ==
    /\ lastOp.op = "reply"
    /\ lastOp.reason = "AuthorSaturated"
    /\ AcceptedFor(lastOp.comment.submission, lastOp.comment.author) = PER_THREAD_USER

\* C4: of two runs for one comment that both passed admission, fetched and
\* rendered, the one whose commit check runs first (caps not reached) is
\* accepted and delivers; a run whose commit check runs after a delivery for
\* that comment is refused as already handled and delivers nothing.
C4_FirstWinsSecondDiscarded ==
    [][\A t \in BagToSet(tasks) :
          ( /\ t.coro = "reply" /\ t.player_data = "ok"
            /\ lastOp'.op = "reply" /\ lastOp'.comment = t.comment
            /\ tasks' = tasks (-) SetToBag({t}) )
          => /\ ( /\ CopiesIn(t, tasks) >= 2
                  /\ ~BagIn(t.comment, delivered)
                  /\ t.comment.id \notin redis.ids
                  /\ ~ThreadFull(TotalOf(redis, t.comment.submission))
                  /\ ~UserFull(CountOf(redis, t.comment.submission, t.comment.author)) )
                => /\ lastOp'.ok
                   /\ delivered' = delivered (+) SetToBag({t.comment})
             /\ BagIn(t.comment, delivered)
                => /\ ~lastOp'.ok
                   /\ lastOp'.reason = "AlreadyHandled"
                   /\ delivered' = delivered
      ]_vars

\* C4 witness: the second of two rendered runs for one comment has just been
\* refused as already handled, the first having delivered.
C4_Witness ==
    /\ lastOp.op = "reply"
    /\ lastOp.trail = <<"parsed", "match", "fetched", "rendered", "rejected">>
    /\ lastOp.reason = "AlreadyHandled"
    /\ CopiesIn(lastOp.comment, delivered) = 1

\* C5 (as claimed): the admission check leaves the store unchanged: a scan,
\* which only calls check_db with update=False, changes neither markers nor
\* records.
C5_AdmitNonMutating ==
    [][lastOp'.op = "filter_comments" => redis' = redis]_vars

\* C6 (as claimed): an accepted commit sets the marker, and leaves the record
\* of the submission with total and the author's count each one greater than
\* before (counting an absent record as total 0, count 0).
C6_CommitCounts ==
    [][(lastOp'.op = "reply" /\ lastOp'.ok) =>
          LET c == lastOp'.comment
          IN  /\ c.id \in redis'.ids
              /\ HExists(redis', c.submission, "total")
              /\ TotalOf(redis', c.submission) = TotalOf(redis, c.submission) + 1
              /\ CountOf(redis', c.submission, c.author) =
                     CountOf(redis, c.submission, c.author) + 1
      ]_vars

\* C7 (as claimed): a marker is present only for a comment id some commit
\* accepted, that is, one that was delivered to.
C7_MarkerOnlyOnAccept ==
    \A id \in redis.ids : \E c \in BagToSet(delivered) : c.id = id

\* C8 (as claimed): the queue never exceeds its capacity, and a scan in which
\* a candidate met a full queue ends without an exception, the queue at
\* capacity.
C8_FullQueueDrops ==
    /\ Len(comment_queue) <= MaxQueue
    /\ (lastOp.op = "filter_comments" /\ lastOp.full > 0)
           => (lastOp.exc = "none" /\ Len(comment_queue) = MaxQueue)

\* C9: a step delivers only as the last stage of a run that, in this order,
\* matched, fetched, rendered and was accepted by the commit check; a step of
\* a run that found no match, failed to fetch, got a malformed payload or was
\* refused delivers nothing.
C9_DeliveryLast ==
    [][/\ delivered' # delivered =>
             /\ lastOp'.op = "reply"
             /\ lastOp'.trail = FullTrail
             /\ CheckDb(lastOp'.comment, TRUE, redis).ok
             /\ delivered' = delivered (+) SetToBag({lastOp'.comment})
       /\ (lastOp'.op \in {"get_player_ids", "get_player_stats", "reply"}
             /\ lastOp'.trail # FullTrail) =>
             /\ delivered' = delivered
             /\ \A t \in BagToSet(tasks') :
                    t.hist # <<"parsed">> => SubSeq(t.hist, 1, 2) = <<"parsed", "match">>
      ]_vars

\* C9 witness: a run has just delivered.
C9_Witness ==
    /\ lastOp.op = "reply"
    /\ lastOp.trail = FullTrail
    /\ BagIn(lastOp.comment, delivered)

\* The result the ordered tests give for a comment on store db.
Decision(db, comment) ==
    IF comment.id \in db.ids THEN FALSE
    ELSE IF comment.author = ALLOW_LISTED THEN TRUE
    ELSE IF ~(comment.submission \in DOMAIN db.hashes
              /\ "total" \in DOMAIN db.hashes[comment.submission]) THEN TRUE
    ELSE IF db.hashes[comment.submission]["total"] >= 25 THEN FALSE
    ELSE IF comment.author \in DOMAIN db.hashes[comment.submission]
            /\ db.hashes[comment.submission][comment.author] >= 5 THEN FALSE
    ELSE TRUE

\* C10: the bool check_db returns, for admit and commit alike, is the one the
\* tests give in this order: marker present -> False; allow-listed author ->
\* True; no record -> True; total >= 25 -> False; author's count >= 5 ->
\* False; otherwise True.
C10_DecisionOrder ==
    [][lastOp'.op = "check_db" => lastOp'.ok = Decision(redis, lastOp'.comment)]_vars

\* C10 witness: a check has just been refused by the thread cap, the test
\* reached last but one.
C10_Witness ==
    /\ lastOp.op = "check_db"
    /\ lastOp.reason = "ThreadSaturated"
    /\ ~lastOp.ok

(***************************************************************************)
(* Rendering (SpecRender).                                                 *)
(***************************************************************************)
\* reply ran on the drawn payload and built a message.
Rendered == result.fn = "reply" /\ ~result.raised

\* The season series and the career aggregate of the drawn payload.
DrawnSeries == StatsNamed(args.player_data.people[1], "yearByYear")[1].splits
DrawnCareer == StatsNamed(args.player_data.people[1], "careerRegularSeason")[1]

\* The positions of a series whose entry carries the target league id.
TargetLeague(series) ==
    { i \in 1..Len(series) :
        "id" \in DOMAIN series[i].league /\ series[i].league.id = NHL_LEAGUE_ID }

\* The k most recent (highest) positions of S.
MostRecent(S, k) == { i \in S : Cardinality({ j \in S : j > i }) < k }

\* The position in its series of the entry a season row was made from.
PositionOf(row) == CHOOSE n \in 1..(MaxSeasons + 1) : SeasonLabel(n) = row.season

SeasonRowsOf(msg) == SelectSeq(msg.rows, LAMBDA row : row.season # "Career")
CareerRowsOf(msg) == SelectSeq(msg.rows, LAMBDA row : row.season = "Career")

\* The season rows of a message come from the five most recent entries of the
\* target league, are at most five, and run oldest to newest.
SeasonRowsRecentOrdered(series, msg) ==
    LET seasonRows == SeasonRowsOf(msg)
        recent     == MostRecent(TargetLeague(series), 5)
    IN  /\ \A k \in 1..Len(seasonRows) : PositionOf(seasonRows[k]) \in recent
        /\ Len(seasonRows) <= 5
        /\ \A k, l \in 1..Len(seasonRows) :
              k < l => PositionOf(seasonRows[k]) < PositionOf(seasonRows[l])
        /\ \A k \in 1..Len(msg.rows) :
              msg.rows[k].season # "Career" => k <= Len(seasonRows)

\* C11 (as stated): every rendered message has season rows only from the five
\* most recent entries of league 133, at most five of them, oldest to newest,
\* followed by exactly one career row, which is the last row.
C11_SeasonRowsThenOneCareerRow ==
    Rendered =>
        /\ SeasonRowsRecentOrdered(DrawnSeries, result.reply_msg)
        /\ Len(CareerRowsOf(result.reply_msg)) = 1

\* C11 (amended): the season rows are as stated; the career row follows them
\* exactly once when the career aggregate has a first split with a stat block,
\* and is absent otherwise.
C11_SeasonRowsThenCareerRowIfParsed ==
    Rendered =>
        /\ SeasonRowsRecentOrdered(DrawnSeries, result.reply_msg)
        /\ Len(CareerRowsOf(result.reply_msg)) =
              (IF /\ DrawnCareer.splits # <<>>
                  /\ "stat" \in DOMAIN Head(DrawnCareer.splits)
               THEN 1 ELSE 0)

\* A series with six entries of league 133, rendered as the five season rows
\* of the recent ones and the career row.
C11_Witness ==
    /\ Rendered
    /\ Cardinality(TargetLeague(DrawnSeries)) >= 6
    /\ Len(SeasonRowsOf(result.reply_msg)) = 5
    /\ PositionOf(result.reply_msg.rows[1]) = 2
    /\ Len(CareerRowsOf(result.reply_msg)) = 1

\* The selected entries of a series: the five most recent of league 133.
Selected(series) == MostRecent(TargetLeague(series), 5)

\* The selected entries that cannot be formatted: no stat block.
Unformattable(series) == { i \in Selected(series) : "stat" \notin DOMAIN series[i] }

\* reply ran on a payload that has a person and a selected entry without stats.
RanOnUnformattable ==
    /\ result.fn = "reply"
    /\ args.player_data.people # <<>>
    /\ Unformattable(DrawnSeries) # {}

\* C12: when a selected season entry has no stat block, exactly its row is
\* missing: every other selected entry has its row, the career row of a
\* parseable aggregate is there, reply did not raise and went on to the commit.
C12_OnlyFailedRowSkipped ==
    RanOnUnformattable =>
        /\ ~result.raised
        /\ { PositionOf(SeasonRowsOf(result.reply_msg)[k]) :
                k \in 1..Len(SeasonRowsOf(result.reply_msg)) }
             = Selected(DrawnSeries) \ Unformattable(DrawnSeries)
        /\ DrawnCareer.splits # <<>> => Len(CareerRowsOf(result.reply_msg)) = 1
        /\ lastOp.op = "reply" /\ lastOp.exc = "none" /\ lastOp.reason = "Pass"
        /\ Deliveries({RenderComment}) = 1

\* A series whose newest entry has no stat block, older selected ones rendered
\* with the career row, and the reply delivered.
C12_Witness ==
    /\ RanOnUnformattable
    /\ Len(DrawnSeries) \in Unformattable(DrawnSeries)
    /\ Len(SeasonRowsOf(result.reply_msg)) >= 2
    /\ Len(CareerRowsOf(result.reply_msg)) = 1
    /\ Deliveries({RenderComment}) = 1

(***************************************************************************)
(* Names (SpecNames).                                                      *)
(***************************************************************************)
\* The text between the brackets of the drawn body.
DrawnName == SubSeq(args.body, 3, Len(args.body) - 2)

\* The characters of str before its first space, and those after it.
BeforeSpace(str) ==
    IF \E k \in 1..Len(str) : str[k] = " "
    THEN SubSeq(str, 1, (CHOOSE k \in 1..Len(str) :
                           str[k] = " " /\ \A l \in 1..(k - 1) : str[l] # " ") - 1)
    ELSE str

AfterSpace(str) == SubSeq(str, Len(BeforeSpace(str)) + 2, Len(str))

\* str is found in text at some offset.
OccursIn(str, text) ==
    \E k \in 1..(Len(text) - Len(str) + 1) : SubSeq(text, k, k + Len(str) - 1) = str

\* The id of a suggestion: its characters before the first bar.
IdOf(player) ==
    SubSeq(player, 1, (CHOOSE k \in 1..Len(player) :
                         player[k] = "|" /\ \A l \in 1..(k - 1) : player[l] # "|") - 1)

\* C13: the first token is the first space-separated word in lower case; the
\* last token is the remaining words joined, in lower case, without periods and
\* hyphens and with its apostrophes; a lookup takes the first suggestion that
\* contains first token, "-", last token without apostrophes.
C13_TokensAndFirstMatch ==
    /\ result.fn \in {"parse_names", "get_player_ids"} =>
          /\ result.first_name = Lower(BeforeSpace(DrawnName))
          /\ result.last_name =
                SelectSeq(Lower(AfterSpace(DrawnName)),
                          LAMBDA c : c \notin {" ", ".", "-"})
    /\ result.fn = "get_player_ids" =>
          LET key  == result.first_name \o <<"-">>
                      \o SelectSeq(result.last_name, LAMBDA c : c # "'")
              hits == { k \in 1..Len(result.suggestions) :
                          OccursIn(key, result.suggestions[k]) }
          IN  IF hits = {}
              THEN result.player_id = NoPlayer
              ELSE \E k \in hits :
                      /\ \A l \in hits : k <= l
                      /\ result.player_id = IdOf(result.suggestions[k])

\* A capital and an apostrophe parsed: the apostrophe is kept in the last token
\* and left out of the key; of two suggestions containing the key the first
\* was taken.
C13_Witness ==
    /\ result.fn = "get_player_ids"
    /\ DrawnName = <<"A", " ", "'", "b">>
    /\ result.first_name = <<"a">>
    /\ result.last_name = <<"'", "b">>
    /\ result.suggestions = << <<"8", "|", "a", "-", "b", "b">>, <<"7", "|", "a", "-", "b">> >>
    /\ result.player_id = <<"8">>

(***************************************************************************)
(* Counters, driver and scheduling.                                        *)
(***************************************************************************)
\* C14: for every submission with a record and every author stored in it, the
\* author's count is at most the record's total.
C14_CountAtMostTotal ==
    \A c \in Comments :
        HExists(redis, c.submission, c.author) =>
            CountOf(redis, c.submission, c.author) <= TotalOf(redis, c.submission)

\* C15: a scan that leaves the queue non-empty is followed by the drain in the
\* same cycle, and the drain returns with the queue empty.
C15_DrainAfterScan ==
    [][ /\ (lastOp'.op = "filter_comments" /\ comment_queue' # <<>>)
            => pc' = "filter_player"
        /\ lastOp'.op = "filter_player" => comment_queue' = <<>> ]_vars

\* C16: while one pipeline's request has not returned, the driver can still
\* take its next step and every other pending pipeline can still take its own.
C16_StallIsLocal ==
    stalled # NoTask =>
        /\ ENABLED DriverStep
        /\ tasks # EmptyBag => ENABLED PipelineStep

\* A step is a commit that passed the marker test.
PassedMarkerTest ==
    /\ lastOp'.op = "reply"
    /\ lastOp'.reason \notin {"none", "AlreadyHandled"}

\* C17: a commit is one step: the commit that passes the marker test of an id
\* finds the marker unset and leaves it set, markers are never unset, so no
\* second commit passes the test for that id; and every author's count is the
\* number of that author's accepted commits, so no increment is lost or made
\* twice.
C17_CommitAtomic ==
    [][ /\ PassedMarkerTest =>
              /\ lastOp'.comment.id \notin redis.ids
              /\ lastOp'.comment.id \in redis'.ids
        /\ redis.ids \subseteq redis'.ids
        /\ \A c \in Comments :
              (c.author # ALLOW_LISTED /\ HExists(redis', c.submission, c.author)) =>
                  CountOf(redis', c.submission, c.author)
                      = AcceptedFor(c.submission, c.author)' ]_vars

\* Several runs of one comment reached the commit: after the accepted one, a
\* second was refused on the marker with the author's count at one, and a
\* further run of it is still pending.
C17_Witness ==
    /\ lastOp.op = "reply"
    /\ lastOp.reason = "AlreadyHandled"
    /\ lastOp.comment.id \in redis.ids
    /\ CountOf(redis, lastOp.comment.submission, lastOp.comment.author) = 1
    /\ \E t \in BagToSet(tasks) : t.coro = "reply" /\ t.comment = lastOp.comment

\* C18: the driver sleeps between any two consecutive scans: a scan is never
\* the step right after a scan.
C18_SleepBetweenScans ==
    [][ ~(lastOp.op = "filter_comments" /\ lastOp'.op = "filter_comments") ]_vars

\* A step is one in which the scan or a pipeline stage raised.
Raised == lastOp'.exc \notin {"none", "pending"}

\* C19: no exception stops the driver: it is always at a step of main; a scan
\* that raised leaves it at the scan of the next cycle; a pipeline stage that
\* raised leaves it where it was.
C19_DriverSurvives ==
    [][ /\ pc' \in {"filter_comments", "filter_player", "sleep"}
        /\ (Raised /\ lastOp'.op = "filter_comments") => pc' = "filter_comments"
        /\ (Raised /\ lastOp'.op # "filter_comments") => pc' = pc ]_vars

\* The scan raised while a pipeline was pending, and the scan of the next
\* cycle can run.
C19_Witness ==
    /\ lastOp.op = "filter_comments"
    /\ lastOp.exc # "none"
    /\ tasks # EmptyBag
    /\ pc = "filter_comments"
    /\ ENABLED (\E comments \in Listings(Comments, MaxBatch) : FilterComments(comments))

====
